---- MODULE Spec2Model ----
(***************************************************************************)
(* Scene graph of src/app/services/scenes/scene.ts: the ordered node list  *)
(* of every scene (items and folders), the render backend's item stack of  *)
(* every scene, and the operations of class Scene on them.                 *)
(*                                                                         *)
(* Indices are 0-based as in the source; At(s, i) reads position i.        *)
(***************************************************************************)
EXTENDS Integers, Sequences, FiniteSets, TLC

VARIABLES nodes, stack, selection

vars == <<nodes, stack, selection>>

(***************************************************************************)
(* Bounds of the model.                                                    *)
(***************************************************************************)
\* most nodes one scene holds in the placement specification
MaxNodes == 3
\* longest node list handed to addSources in the placement specification
MaxSnap == 3
\* most nodes the scene holds in the restore-and-place specification
MaxPlace == 4
\* most nodes all scenes hold together in the composition specification
MaxTotal == 2

\* parentId '' of the source: no parent
NoId == 0
\* node ids of one scene (ipcRenderer getUniqueId, or a caller-supplied id)
NodeIds == 1..(MaxNodes + 1)
\* an id that names no node of any scene
MissingId == MaxNodes + 2

\* the scenes; every scene is also a source of type 'scene' with the same id
Scenes == {"s1", "s2", "s3"}
\* the scene the placement specification edits
MainScene == "s1"
\* a source that is not a scene
Cam == "cam"
\* a source id the sources service does not resolve
Ghost == "ghost"
Sources == Scenes \cup {Cam}

Null == [kind |-> "null"]

Min(a, b) == IF a < b THEN a ELSE b
Max(a, b) == IF a > b THEN a ELSE b

At(s, i) == s[i + 1]

\* Array.prototype.indexOf / findIndex on the first match, -1 when absent
IndexOf(s, x) ==
  IF \E i \in 1..Len(s) : s[i] = x
  THEN (CHOOSE i \in 1..Len(s) : s[i] = x /\ \A j \in 1..(i - 1) : s[j] # x) - 1
  ELSE -1

\* Array.prototype.splice(start, deleteCount, ...ins) as a value
Splice(s, start, del, ins) ==
  LET len == Len(s)
      s0  == IF start < 0 THEN Max(len + start, 0) ELSE Min(start, len)
      d   == Max(0, Min(del, len - s0))
  IN  SubSeq(s, 1, s0) \o ins \o SubSeq(s, s0 + d + 1, len)

Reverse(s) == [i \in 1..Len(s) |-> s[Len(s) + 1 - i]]

Range(s) == {s[i] : i \in 1..Len(s)}

\* F applied to the value of v, v being evaluated once
Bind(v, F(_)) == CHOOSE y \in {F(x) : x \in {v}} : TRUE

(***************************************************************************)
(* Scene queries (scene.ts) on a node list ns.                             *)
(***************************************************************************)
IsItemModel(n) == n.kind = "item"

\* Scene.getNodesIds
GetNodesIds(ns) == [i \in 1..Len(ns) |-> ns[i].id]

\* Scene.getNode: the first node model with that id, or null
GetNode(ns, id) ==
  LET i == IndexOf(GetNodesIds(ns), id)
  IN  IF i < 0 THEN Null ELSE At(ns, i)

\* Scene.getItems / get items
GetItems(ns) == SelectSeq(ns, IsItemModel)

(***************************************************************************)
(* Node views (SceneItem, SceneItemFolder), which scene.ts calls.          *)
(***************************************************************************)
IsFolder(n) == n.kind = "folder"

GetNodeIndex(ns, n) == IndexOf(GetNodesIds(ns), n.id)

GetPrevNode(ns, n) ==
  LET i == GetNodeIndex(ns, n)
  IN  IF i - 1 >= 0 /\ i - 1 < Len(ns) THEN At(ns, i - 1) ELSE Null

RECURSIVE GetPrevItem(_, _)
GetPrevItem(ns, n) ==
  LET p == GetPrevNode(ns, n)
  IN  IF p = Null THEN Null
      ELSE IF p.kind = "item" THEN p
      ELSE GetPrevItem(ns, p)

\* an item: its index among the items; a folder: the index of the nearest
\* item before it, 0 when it is the first node
RECURSIVE GetItemIndex(_, _)
GetItemIndex(ns, n) ==
  IF n.kind = "item"
  THEN IndexOf(GetNodesIds(GetItems(ns)), n.id)
  ELSE IF GetNodeIndex(ns, n) <= 0 THEN 0
       ELSE GetItemIndex(ns, GetPrevNode(ns, n))

\* SceneItemFolder.getNestedNodes: children in childrenIds order, each
\* followed by its own nested nodes.  fuel bounds the depth.
RECURSIVE NestedNodesOf(_, _, _)
NestedNodesOf(ns, ids, fuel) ==
  IF ids = <<>> \/ fuel = 0 THEN <<>>
  ELSE LET c == GetNode(ns, Head(ids))
           own == IF c = Null THEN <<>>
                  ELSE IF c.kind = "folder"
                       THEN <<c>> \o NestedNodesOf(ns, c.childrenIds, fuel - 1)
                       ELSE <<c>>
       IN  own \o NestedNodesOf(ns, Tail(ids), fuel)

GetNestedNodes(ns, n) == NestedNodesOf(ns, n.childrenIds, Len(ns) + 1)

GetNestedNodesIds(ns, n) == GetNodesIds(GetNestedNodes(ns, n))

GetNestedItems(ns, n) == SelectSeq(GetNestedNodes(ns, n), IsItemModel)

\* every id below n resolves to a node (getNestedNodes dereferences each child)
RECURSIVE ChildrenResolve(_, _, _)
ChildrenResolve(ns, ids, fuel) ==
  \/ ids = <<>>
  \/ /\ fuel > 0
     /\ GetNode(ns, Head(ids)) # Null
     /\ LET c == GetNode(ns, Head(ids))
        IN  c.kind = "folder" => ChildrenResolve(ns, c.childrenIds, fuel - 1)
     /\ ChildrenResolve(ns, Tail(ids), fuel)

NestedResolves(ns, n) ==
  n.kind = "folder" => ChildrenResolve(ns, n.childrenIds, Len(ns) + 1)

(***************************************************************************)
(* Render backend (obs scene): a linear stack of entry ids, index 0 being  *)
(* the entry of the first item of the scene.                               *)
(***************************************************************************)
\* obsScene.add: the new entry's id.  Entry ids are opaque to scene.ts; the
\* entry is named after the scene item it is made for when no entry has
\* that name, and by the least unused number otherwise
ObsNewId(st, sceneItemId) ==
  IF sceneItemId \notin Range(st) THEN sceneItemId
  ELSE CHOOSE k \in 1..(Len(st) + 1) :
         k \notin Range(st) /\ \A j \in 1..(k - 1) : j \in Range(st)

\* obsScene.add: the new entry is the first of the stack
ObsAdd(st, obsId) == <<obsId>> \o st

\* obsSceneItem.remove
ObsRemove(st, obsId) ==
  LET Keep(e) == e # obsId IN SelectSeq(st, Keep)

\* obsScene.moveItem(from, to) succeeds when an entry is at from
ObsCanMove(st, from) == from >= 0 /\ from < Len(st)

\* obsScene.moveItem(from, to): the entry at from is taken out and put in at to
ObsMoveItem(st, from, to) ==
  Splice(Splice(st, from, 1, <<>>), to, 0, <<At(st, from)>>)

(***************************************************************************)
(* Scene.placeAfter, lines 205-277.                                        *)
(***************************************************************************)
\* lines 211: the items whose backend entries move
ItemsToMove(ns, sourceNode) ==
  IF IsFolder(sourceNode) THEN GetNestedItems(ns, sourceNode) ELSE <<sourceNode>>

\* line 214
IsForwardDirection(ns, sourceNode, destNode) ==
  destNode # Null /\ GetNodeIndex(ns, destNode) > GetNodeIndex(ns, sourceNode)

\* lines 220-224
DestIsFolderWithoutItemsBefore(ns, destNode) ==
  /\ IsFolder(destNode)
  /\ GetItemIndex(ns, destNode) = 0
  /\ GetPrevItem(ns, destNode) = Null

\* lines 215-235
NewItemIndex(ns, sourceNode, destNode) ==
  IF destNode = Null THEN 0
  ELSE LET destItemIndex == GetItemIndex(ns, destNode)
       IN  IF DestIsFolderWithoutItemsBefore(ns, destNode) THEN 0
           ELSE IF IsForwardDirection(ns, sourceNode, destNode)
                THEN IF IsFolder(destNode)
                     THEN destItemIndex + Len(GetNestedItems(ns, destNode))
                     ELSE destItemIndex
                ELSE destItemIndex + 1

\* line 242 / 244: the index iteration i moves from
MoveFromIndex(firstItemIndex, i, fwd) ==
  IF fwd THEN firstItemIndex ELSE firstItemIndex + i

\* lines 240-246: the loop from iteration i on; a failing moveItem ends it
RECURSIVE MoveItems(_, _, _, _, _, _)
MoveItems(st, i, n, firstItemIndex, newItemIndex, fwd) ==
  IF i >= n THEN [st |-> st, ok |-> TRUE]
  ELSE LET from == MoveFromIndex(firstItemIndex, i, fwd)
       IN  IF ~ObsCanMove(st, from) THEN [st |-> st, ok |-> FALSE]
           ELSE MoveItems(ObsMoveItem(st, from, newItemIndex), i + 1, n,
                          firstItemIndex, newItemIndex, fwd)

\* lines 252-254
NodesToMoveIds(ns, sourceNode) ==
  IF sourceNode.kind = "folder"
  THEN <<sourceNode.id>> \o GetNestedNodesIds(ns, sourceNode)
  ELSE <<sourceNode.id>>

\* lines 259-271
NewNodeIndex(ns, destNode, firstNodeIndex, nToMove) ==
  IF destNode = Null THEN 0
  ELSE LET destNodeIndex == GetNodeIndex(ns, destNode)
       IN  IF destNodeIndex > firstNodeIndex
           THEN IF IsFolder(destNode)
                THEN destNodeIndex + Len(GetNestedNodes(ns, destNode)) - nToMove + 1
                ELSE destNodeIndex - nToMove + 1
           ELSE destNodeIndex + 1

\* lines 273-274
NewNodesOrder(ids, firstNodeIndex, newNodeIndex, toMove) ==
  Splice(Splice(ids, firstNodeIndex, Len(toMove), <<>>), newNodeIndex, 0, toMove)

\* SET_NODES_ORDER, lines 455-464
SET_NODES_ORDER(ns, order) == [i \in 1..Len(order) |-> GetNode(ns, order[i])]

\* the whole call: the node list, the stack and how the call ended
PlaceAfterResult(ns, st, sourceNodeId, destNodeId) ==
  LET sourceNode == GetNode(ns, sourceNodeId)
      destNode   == GetNode(ns, destNodeId)
      same       == [ns |-> ns, st |-> st, res |-> "TypeError"]
  IN
  IF sourceNode = Null \/ ~NestedResolves(ns, sourceNode) THEN same
  ELSE
  LET itemsToMove == ItemsToMove(ns, sourceNode) IN
  IF itemsToMove = <<>> THEN same
  ELSE
  LET firstItemIndex == GetItemIndex(ns, itemsToMove[1])
      fwd            == IsForwardDirection(ns, sourceNode, destNode)
      nestedEarly    == destNode # Null
                        /\ ~DestIsFolderWithoutItemsBefore(ns, destNode)
                        /\ fwd
  IN
  IF nestedEarly /\ ~NestedResolves(ns, destNode) THEN same
  ELSE
  LET newItemIndex == NewItemIndex(ns, sourceNode, destNode)
      moved == IF newItemIndex # firstItemIndex
               THEN MoveItems(st, 0, Len(itemsToMove), firstItemIndex, newItemIndex, fwd)
               ELSE [st |-> st, ok |-> TRUE]
  IN
  IF ~moved.ok THEN [ns |-> ns, st |-> moved.st, res |-> "BackendError"]
  ELSE
  LET nodesToMoveIds == NodesToMoveIds(ns, sourceNode)
      firstNodeIndex == GetNodeIndex(ns, GetNode(ns, nodesToMoveIds[1]))
      nestedLate     == destNode # Null
                        /\ GetNodeIndex(ns, destNode) > firstNodeIndex
  IN
  IF nestedLate /\ ~NestedResolves(ns, destNode)
  THEN [ns |-> ns, st |-> moved.st, res |-> "TypeError"]
  ELSE
  LET newNodeIndex == NewNodeIndex(ns, destNode, firstNodeIndex, Len(nodesToMoveIds))
      order == NewNodesOrder(GetNodesIds(ns), firstNodeIndex, newNodeIndex, nodesToMoveIds)
  IN  [ns |-> SET_NODES_ORDER(ns, order), st |-> moved.st, res |-> "ok"]

\* lines 239-247: the moveItem calls a placeAfter call issues when none fails
\* (0 when the call ends before the loop or the guard of line 239 is false)
MoveItemCalls(ns, st, sourceNodeId, destNodeId) ==
  LET sourceNode == GetNode(ns, sourceNodeId)
      destNode   == GetNode(ns, destNodeId)
  IN
  IF sourceNode = Null \/ ~NestedResolves(ns, sourceNode) THEN 0
  ELSE
  LET itemsToMove == ItemsToMove(ns, sourceNode) IN
  IF itemsToMove = <<>> THEN 0
  ELSE
  LET firstItemIndex == GetItemIndex(ns, itemsToMove[1])
      fwd            == IsForwardDirection(ns, sourceNode, destNode)
      nestedEarly    == destNode # Null
                        /\ ~DestIsFolderWithoutItemsBefore(ns, destNode)
                        /\ fwd
  IN
  IF nestedEarly /\ ~NestedResolves(ns, destNode) THEN 0
  ELSE IF NewItemIndex(ns, sourceNode, destNode) = firstItemIndex THEN 0
  ELSE Len(itemsToMove)

\* placeAfter when the backend throws in the moveItem call of iteration
\* failAt (failAt < MoveItemCalls): the calls before it have been made, the
\* exception leaves the method at line 242 / 244 and lines 249-276 do not run
PlaceAfterFailingResult(ns, st, sourceNodeId, destNodeId, failAt) ==
  LET sourceNode     == GetNode(ns, sourceNodeId)
      destNode       == GetNode(ns, destNodeId)
      itemsToMove    == ItemsToMove(ns, sourceNode)
      firstItemIndex == GetItemIndex(ns, itemsToMove[1])
      fwd            == IsForwardDirection(ns, sourceNode, destNode)
      newItemIndex   == NewItemIndex(ns, sourceNode, destNode)
      moved          == MoveItems(st, 0, failAt, firstItemIndex, newItemIndex, fwd)
  IN  [ns |-> ns, st |-> moved.st, res |-> "BackendError"]

\* Scene.placeBefore, lines 279-282
PlaceBeforeResult(ns, st, sourceNodeId, destNodeId) ==
  IF GetNode(ns, destNodeId) = Null
  THEN [ns |-> ns, st |-> st, res |-> "TypeError"]
  ELSE LET destNode == GetPrevNode(ns, GetNode(ns, destNodeId))
       IN  PlaceAfterResult(ns, st, sourceNodeId,
                            IF destNode = Null THEN NoId ELSE destNode.id)

(***************************************************************************)
(* Mutations of the node list.                                             *)
(***************************************************************************)
\* ADD_SOURCE_TO_SCENE, lines 397-435
ADD_SOURCE_TO_SCENE(ns, sceneItemId, sourceId, obsSceneItemId) ==
  <<[id |-> sceneItemId, kind |-> "item", sourceId |-> sourceId,
     parentId |-> NoId, childrenIds |-> <<>>, obsId |-> obsSceneItemId]>> \o ns

\* ADD_FOLDER_TO_SCENE, lines 437-440, with the model createFolder builds
ADD_FOLDER_TO_SCENE(ns, id) ==
  <<[id |-> id, kind |-> "folder", sourceId |-> "",
     parentId |-> NoId, childrenIds |-> <<>>, obsId |-> 0]>> \o ns

\* REMOVE_NODE_FROM_SCENE, lines 443-453 (the node list)
REMOVE_NODE_FROM_SCENE(ns, nodeId) ==
  LET Keep(n) == n.id # nodeId IN SelectSeq(ns, Keep)

\* SceneItemNode SET_PARENT: the node leaves its parent's childrenIds and
\* becomes the first of the new parent's
SET_PARENT(ns, id, parentId) ==
  LET old == GetNode(ns, id).parentId
      Without(s) == LET Keep(c) == c # id IN SelectSeq(s, Keep)
      Upd(n) ==
        LET c1 == IF n.kind = "folder" /\ n.id = old /\ old # NoId
                  THEN Without(n.childrenIds) ELSE n.childrenIds
            c2 == IF n.kind = "folder" /\ n.id = parentId /\ parentId # NoId
                  THEN <<id>> \o c1 ELSE c1
        IN  [n EXCEPT !.childrenIds = c2,
                      !.parentId = IF n.id = id THEN parentId ELSE n.parentId]
  IN  [i \in 1..Len(ns) |-> Upd(ns[i])]

\* SceneItemNode.detachParent
DetachParent(ns, id) ==
  IF GetNode(ns, id).parentId # NoId THEN SET_PARENT(ns, id, NoId) ELSE ns

\* SceneItemNode.setParent: SET_PARENT, then placeAfter(parentId)
SetParent(ns, st, id, parentId) ==
  Bind(SET_PARENT(ns, id, parentId),
       LAMBDA ns1 : PlaceAfterResult(ns1, st, id, parentId))

\* Selection.moveTo(sceneId, folderId) within one scene: the selected nodes
\* whose parent is not selected, last first, each becomes a child of folderId
RECURSIVE SetParents(_, _, _, _)
SetParents(ns, st, ids, folderId) ==
  IF ids = <<>> THEN [ns |-> ns, st |-> st, res |-> "ok"]
  ELSE Bind(SetParent(ns, st, Head(ids), folderId),
            LAMBDA r : IF r.res # "ok" THEN r
                       ELSE SetParents(r.ns, r.st, Tail(ids), folderId))

MoveTo(ns, st, ids, folderId) ==
  LET Present(id) == GetNode(ns, id) # Null
      sel == SelectSeq(ids, Present)
      IsRoot(id) == GetNode(ns, id).parentId \notin Range(sel)
  IN  SetParents(ns, st, Reverse(SelectSeq(sel, IsRoot)), folderId)

(***************************************************************************)
(* Sources service and cycle detection, lines 334-358.                     *)
(***************************************************************************)
\* sourcesService.getSource resolves the id
SourceExists(sourceId) == sourceId \in Sources

\* source.type === 'scene'
IsSceneSource(sourceId) == sourceId \in Scenes

\* lines 348-350: the scenes the scene's items show, in item order
ChildScenes(ns) ==
  LET IsSceneItem(n) == n.kind = "item" /\ IsSceneSource(n.sourceId)
      its == SelectSeq(ns, IsSceneItem)
  IN  [i \in 1..Len(its) |-> its[i].sourceId]

\* Scene.hasNestedScene: "true", "false", or "overflow" when the recursion
\* does not end; depth counts the calls on the stack
RECURSIVE HasNestedLoop(_, _, _, _)
HasNestedLoop(all, childScenes, sceneId, depth) ==
  IF childScenes = <<>> THEN "false"
  ELSE IF Head(childScenes) = sceneId THEN "true"
  ELSE IF depth > Cardinality(Scenes) THEN "overflow"
  ELSE LET r == HasNestedLoop(all, ChildScenes(all[Head(childScenes)]), sceneId, depth + 1)
       IN  IF r # "false" THEN r
           ELSE HasNestedLoop(all, Tail(childScenes), sceneId, depth)

\* hasNestedScene without line 354: only the scenes the scene's own items show
HasNestedSceneDirect(all, thisId, sceneId) ==
  IF sceneId \in Range(ChildScenes(all[thisId])) THEN "true" ELSE "false"

HasNestedScene(all, thisId, sceneId) ==
  HasNestedLoop(all, ChildScenes(all[thisId]), sceneId, 1)

\* Scene.canAddSource: "true", "false" or "overflow"
CanAddSource(all, thisId, sourceId) ==
  IF ~SourceExists(sourceId) THEN "false"
  ELSE IF ~IsSceneSource(sourceId) THEN "true"
  ELSE IF thisId = sourceId THEN "false"
  ELSE LET r == HasNestedScene(all, sourceId, thisId)
       IN  IF r = "true" THEN "false" ELSE IF r = "false" THEN "true" ELSE r

(***************************************************************************)
(* Scene.addSources, lines 285-331.                                        *)
(***************************************************************************)
\* lines 288-307: folders, and the items whose source resolves
KeptNodes(list) ==
  LET Keep(m) == m.kind = "folder" \/ SourceExists(m.sourceId)
  IN  SelectSeq(list, Keep)

\* obs.addItems: one entry per item, added in the order given; the entry ids
RECURSIVE ObsAddItems(_, _)
ObsAddItems(st, items) ==
  IF items = <<>> THEN [st |-> st, ids |-> <<>>]
  ELSE LET id == ObsNewId(st, Head(items).id)
           r  == ObsAddItems(ObsAdd(st, id), Tail(items))
       IN  [st |-> r.st, ids |-> <<id>> \o r.ids]

\* lines 312-323: the nodes are created in list order, each at the head
RECURSIVE CreateNodes(_, _, _, _)
CreateNodes(ns, kept, obsIds, itemIndex) ==
  IF kept = <<>> THEN ns
  ELSE LET m == Head(kept)
       IN  IF m.kind = "folder"
           THEN CreateNodes(ADD_FOLDER_TO_SCENE(ns, m.id), Tail(kept), obsIds, itemIndex)
           ELSE CreateNodes(ADD_SOURCE_TO_SCENE(ns, m.id, m.sourceId, At(obsIds, itemIndex)),
                            Tail(kept), obsIds, itemIndex + 1)

\* lines 326-330: every folder of the list takes its children
RECURSIVE FillFolders(_, _, _)
FillFolders(ns, st, kept) ==
  IF kept = <<>> THEN [ns |-> ns, st |-> st, res |-> "ok"]
  ELSE LET m == Head(kept)
       IN  IF m.kind # "folder" THEN FillFolders(ns, st, Tail(kept))
           ELSE Bind(MoveTo(ns, st, m.childrenIds, m.id),
                     LAMBDA r : IF r.res # "ok" THEN r
                                ELSE FillFolders(r.ns, r.st, Tail(kept)))

AddSourcesResult(ns, st, list) ==
  LET kept    == KeptNodes(list)
      arrayItems == SelectSeq(kept, IsItemModel)
      added   == ObsAddItems(st, arrayItems)
      created == CreateNodes(ns, kept, added.ids, 0)
  IN  Bind(created, LAMBDA ns1 : FillFolders(ns1, added.st, kept))

(***************************************************************************)
(* Inputs.                                                                 *)
(***************************************************************************)
UsedIds(ns) == Range(GetNodesIds(ns))

\* the ids the scene knows: its nodes' ids and the ids they refer to
KnownIds(ns) ==
  UsedIds(ns) \cup {ns[i].parentId : i \in 1..Len(ns)}
              \cup UNION {Range(ns[i].childrenIds) : i \in 1..Len(ns)}

\* ipcRenderer getUniqueId never gives an id twice: the least id the scene
\* does not know
HasUniqueId(ns) == \E k \in NodeIds : k \notin KnownIds(ns)

UniqueId(ns) ==
  CHOOSE k \in NodeIds :
    k \notin KnownIds(ns) /\ \A j \in 1..(k - 1) : j \in KnownIds(ns)

\* the k-th id no node of the scene has
RECURSIVE NthUnused(_, _, _)
NthUnused(used, k, from) ==
  IF from \notin used
  THEN IF k = 1 THEN from ELSE NthUnused(used, k - 1, from + 1)
  ELSE NthUnused(used, k, from + 1)

\* par is the parent position of each position of a node list in pre-order:
\* a parent is a folder before its child, and a folder's nodes follow it
RECURSIVE IsAncestorPos(_, _, _)
IsAncestorPos(par, a, i) ==
  /\ i # 0
  /\ \/ par[i] = a
     \/ IsAncestorPos(par, a, par[i])

PreOrder(n, kinds, par) ==
  \A i \in 1..n :
    /\ par[i] < i
    /\ par[i] # 0 => kinds[par[i]] = "folder"
    /\ par[i] # 0 /\ par[i] # i - 1 => IsAncestorPos(par, par[i], i - 1)

\* the node list a scene in pre-order saves: n nodes, new ids
SavedList(used, n, kinds, par, srcs) ==
  [i \in 1..n |->
     [id |-> NthUnused(used, i, 1), kind |-> kinds[i],
      sourceId |-> IF kinds[i] = "item" THEN srcs[i] ELSE "",
      childrenIds |->
        LET IsChild(j) == par[j] = i
            pos == SelectSeq([j \in 1..n |-> j], IsChild)
        IN  [c \in 1..Len(pos) |-> NthUnused(used, pos[c], 1)]]]

\* node lists handed to addSources: a saved scene, first node first or last
SavedLists(used, maxLen, srcChoices) ==
  UNION { { IF rev THEN Reverse(SavedList(used, n, kinds, par, srcs))
            ELSE SavedList(used, n, kinds, par, srcs) :
            rev \in BOOLEAN }
          : <<n, kinds, par, srcs>> \in
              { x \in UNION { {n} \X [1..n -> {"item", "folder"}] \X [1..n -> 0..n]
                                  \X [1..n -> srcChoices] : n \in 1..maxLen } :
                PreOrder(x[1], x[2], x[3]) } }

(***************************************************************************)
(* State and operations.                                                   *)
(*   nodes[s]   sceneState.nodes of scene s                                *)
(*   stack[s]   the backend's entries of scene s, in stack order           *)
(*   selection  the selected nodes, as <<scene, node id>>                  *)
(***************************************************************************)
Init ==
  /\ nodes = [s \in Scenes |-> <<>>]
  /\ stack = [s \in Scenes |-> <<>>]
  /\ selection = {}

TotalNodes == Len(nodes["s1"]) + Len(nodes["s2"]) + Len(nodes["s3"])

\* Scene.addSource, lines 129-132: "Error" (thrown), "null" (returned),
\* "RangeError" (the cycle check does not end) or "true" (the item is added)
AddSourceOutcome(all, thisId, sourceId) ==
  IF ~SourceExists(sourceId) THEN "Error"
  ELSE LET can == CanAddSource(all, thisId, sourceId)
       IN  IF can = "false" THEN "null"
           ELSE IF can = "overflow" THEN "RangeError"
           ELSE "true"

\* addSource with the backend entry made before the canAddSource check of
\* line 132
AddSourceEager(sc, sourceId) ==
  /\ Len(nodes[sc]) < MaxNodes
  /\ HasUniqueId(nodes[sc])
  /\ Len(stack[sc]) < MaxNodes
  /\ LET can == AddSourceOutcome(nodes, sc, sourceId)
         sceneItemId == UniqueId(nodes[sc])
         obsId == ObsNewId(stack[sc], sceneItemId)
     IN  IF can = "Error"
         THEN UNCHANGED <<nodes, stack, selection>>
         ELSE /\ stack' = [stack EXCEPT ![sc] = ObsAdd(@, obsId)]
              /\ IF can # "true"
                 THEN UNCHANGED <<nodes, selection>>
                 ELSE /\ nodes' = [nodes EXCEPT ![sc] =
                                     ADD_SOURCE_TO_SCENE(@, sceneItemId, sourceId, obsId)]
                      /\ selection' = {<<sc, sceneItemId>>}

\* Scene.addSource, lines 127-154
AddSource(sc, sourceId) ==
  /\ Len(nodes[sc]) < MaxNodes
  /\ HasUniqueId(nodes[sc])
  /\ Len(stack[sc]) < MaxNodes
  /\ LET can == AddSourceOutcome(nodes, sc, sourceId)
         sceneItemId == UniqueId(nodes[sc])
         obsId == ObsNewId(stack[sc], sceneItemId)
     IN  IF can # "true"
         THEN UNCHANGED <<nodes, stack, selection>>
         ELSE /\ stack' = [stack EXCEPT ![sc] = ObsAdd(@, obsId)]
              /\ nodes' = [nodes EXCEPT ![sc] =
                             ADD_SOURCE_TO_SCENE(@, sceneItemId, sourceId, obsId)]
              /\ selection' = {<<sc, sceneItemId>>}

\* Scene.createFolder, lines 156-168
CreateFolder(sc) ==
  /\ Len(nodes[sc]) < MaxNodes
  /\ HasUniqueId(nodes[sc])
  /\ LET id == UniqueId(nodes[sc])
     IN  nodes' = [nodes EXCEPT ![sc] = ADD_FOLDER_TO_SCENE(@, id)]
  /\ UNCHANGED <<stack, selection>>

\* Scene.addSource with options.id, lines 127-154: line 135 takes the
\* caller's id when it is given (NoId: not given) and asks for a unique id
\* otherwise
AddSourceWithId(sc, sourceId, optionsId) ==
  /\ Len(nodes[sc]) < MaxNodes
  /\ optionsId = NoId => HasUniqueId(nodes[sc])
  /\ Len(stack[sc]) < MaxNodes
  /\ LET can == AddSourceOutcome(nodes, sc, sourceId)
         sceneItemId == IF optionsId # NoId THEN optionsId ELSE UniqueId(nodes[sc])
         obsId == ObsNewId(stack[sc], sceneItemId)
     IN  IF can # "true"
         THEN UNCHANGED <<nodes, stack, selection>>
         ELSE /\ stack' = [stack EXCEPT ![sc] = ObsAdd(@, obsId)]
              /\ nodes' = [nodes EXCEPT ![sc] =
                             ADD_SOURCE_TO_SCENE(@, sceneItemId, sourceId, obsId)]
              /\ selection' = {<<sc, sceneItemId>>}

\* Scene.createFolder with options.id, lines 156-168 (line 158)
CreateFolderWithId(sc, optionsId) ==
  /\ Len(nodes[sc]) < MaxNodes
  /\ optionsId = NoId => HasUniqueId(nodes[sc])
  /\ LET id == IF optionsId # NoId THEN optionsId ELSE UniqueId(nodes[sc])
     IN  nodes' = [nodes EXCEPT ![sc] = ADD_FOLDER_TO_SCENE(@, id)]
  /\ UNCHANGED <<stack, selection>>

\* Selection.remove of a folder's selection: its nodes leave the selection
SelectionRemove(sel, sc, ids) == sel \ {<<sc, id>> : id \in Range(ids)}

\* a removeFolder that takes the folder's children out of the scene with it
RemoveFolderCascade(sc, folderId) ==
  LET node == GetNode(nodes[sc], folderId)
      Keep(n) == n.id # folderId /\ n.id \notin Range(node.childrenIds)
  IN  IF node.kind # "folder"
      THEN UNCHANGED <<nodes, stack, selection>>
      ELSE /\ nodes' = [nodes EXCEPT ![sc] = SelectSeq(DetachParent(@, folderId), Keep)]
           /\ selection' = SelectionRemove(selection, sc, node.childrenIds)
                             \ {<<sc, folderId>>}
           /\ UNCHANGED stack

\* Scene.removeFolder, lines 170-179
RemoveFolder(sc, folderId) ==
  LET node == GetNode(nodes[sc], folderId)
  IN  IF node.kind # "folder"
      THEN UNCHANGED <<nodes, stack, selection>>
      ELSE /\ nodes' = [nodes EXCEPT ![sc] =
                          REMOVE_NODE_FROM_SCENE(DetachParent(@, folderId), folderId)]
           /\ selection' = SelectionRemove(selection, sc, node.childrenIds)
                             \ {<<sc, folderId>>}
           /\ UNCHANGED stack

\* Scene.removeItem, lines 186-196
RemoveItem(sc, sceneItemId) ==
  LET node == GetNode(nodes[sc], sceneItemId)
  IN  IF node.kind # "item"
      THEN UNCHANGED <<nodes, stack, selection>>
      ELSE /\ stack' = [stack EXCEPT ![sc] = ObsRemove(@, node.obsId)]
           /\ nodes' = [nodes EXCEPT ![sc] =
                          REMOVE_NODE_FROM_SCENE(DetachParent(@, sceneItemId), sceneItemId)]
           /\ selection' = selection \ {<<sc, sceneItemId>>}

\* Scene.placeAfter, lines 205-277
PlaceAfter(sc, sourceNodeId, destNodeId) ==
  LET r == PlaceAfterResult(nodes[sc], stack[sc], sourceNodeId, destNodeId)
  IN  /\ Len(r.ns) <= MaxNodes
      /\ nodes' = [nodes EXCEPT ![sc] = r.ns]
      /\ stack' = [stack EXCEPT ![sc] = r.st]
      /\ UNCHANGED selection

\* Scene.placeBefore, lines 279-282
PlaceBefore(sc, sourceNodeId, destNodeId) ==
  LET r == PlaceBeforeResult(nodes[sc], stack[sc], sourceNodeId, destNodeId)
  IN  /\ Len(r.ns) <= MaxNodes
      /\ nodes' = [nodes EXCEPT ![sc] = r.ns]
      /\ stack' = [stack EXCEPT ![sc] = r.st]
      /\ UNCHANGED selection

\* Scene.placeAfter, lines 205-277, on scenes of up to max nodes
PlaceAfterIn(max, sc, sourceNodeId, destNodeId) ==
  \E r \in {PlaceAfterResult(nodes[sc], stack[sc], sourceNodeId, destNodeId)} :
    /\ Len(r.ns) <= max
    /\ nodes' = [nodes EXCEPT ![sc] = r.ns]
    /\ stack' = [stack EXCEPT ![sc] = r.st]
    /\ UNCHANGED selection

\* Scene.placeBefore, lines 279-282, on scenes of up to max nodes
PlaceBeforeIn(max, sc, sourceNodeId, destNodeId) ==
  \E r \in {PlaceBeforeResult(nodes[sc], stack[sc], sourceNodeId, destNodeId)} :
    /\ Len(r.ns) <= max
    /\ nodes' = [nodes EXCEPT ![sc] = r.ns]
    /\ stack' = [stack EXCEPT ![sc] = r.st]
    /\ UNCHANGED selection

\* Scene.placeAfter, lines 205-277, with the backend failing in the moveItem
\* call of iteration failAt
PlaceAfterFailing(sc, sourceNodeId, destNodeId, failAt) ==
  /\ failAt < MoveItemCalls(nodes[sc], stack[sc], sourceNodeId, destNodeId)
  /\ \E r \in {PlaceAfterFailingResult(nodes[sc], stack[sc], sourceNodeId,
                                        destNodeId, failAt)} :
       /\ nodes' = [nodes EXCEPT ![sc] = r.ns]
       /\ stack' = [stack EXCEPT ![sc] = r.st]
  /\ UNCHANGED selection

\* Scene.addSources, lines 285-331, of a list of up to max nodes
AddSourcesIn(max, sc, list) ==
  /\ Len(nodes[sc]) + Len(list) <= max
  /\ \E r \in {AddSourcesResult(nodes[sc], stack[sc], list)} :
       /\ Len(r.ns) <= max
       /\ nodes' = [nodes EXCEPT ![sc] = r.ns]
       /\ stack' = [stack EXCEPT ![sc] = r.st]
  /\ UNCHANGED selection

\* Scene.addSources, lines 285-331
AddSources(sc, list) ==
  LET r == AddSourcesResult(nodes[sc], stack[sc], list)
  IN  /\ Len(nodes[sc]) + Len(list) <= MaxNodes
      /\ Len(stack[sc]) + Len(list) <= MaxNodes
      /\ Len(r.ns) <= MaxNodes
      /\ nodes' = [nodes EXCEPT ![sc] = r.ns]
      /\ stack' = [stack EXCEPT ![sc] = r.st]
      /\ UNCHANGED selection

(***************************************************************************)
(* SpecEdit: one scene, new at first, edited through addSource,            *)
(* createFolder, removeItem, removeFolder, placeAfter and placeBefore, its *)
(* items showing the camera source.                                        *)
(***************************************************************************)
NextEdit ==
  \/ \E src \in {Cam, Ghost} : AddSource(MainScene, src)
  \/ CreateFolder(MainScene)
  \/ \E id \in UsedIds(nodes[MainScene]) : RemoveItem(MainScene, id)
  \/ \E id \in UsedIds(nodes[MainScene]) : RemoveFolder(MainScene, id)
  \/ \E s \in UsedIds(nodes[MainScene]) :
       \E d \in UsedIds(nodes[MainScene]) \cup {NoId, MissingId} :
         PlaceAfter(MainScene, s, d)
  \/ \E s \in UsedIds(nodes[MainScene]) :
       \E d \in UsedIds(nodes[MainScene]) : PlaceBefore(MainScene, s, d)

SpecEdit == Init /\ [][NextEdit]_vars

(***************************************************************************)
(* Spec: the same scene and operations, and addSources, which replays a    *)
(* saved node list into the scene while it is new (no node, no backend     *)
(* entry).  This is how folders come to have children: scene.ts sets no    *)
(* parent anywhere else.  Items of the list show the camera or a source    *)
(* that no longer resolves.                                                *)
(***************************************************************************)
Next ==
  \/ \E src \in {Cam, Ghost} : AddSource(MainScene, src)
  \/ CreateFolder(MainScene)
  \/ \E id \in UsedIds(nodes[MainScene]) : RemoveItem(MainScene, id)
  \/ \E id \in UsedIds(nodes[MainScene]) : RemoveFolder(MainScene, id)
  \/ \E s \in UsedIds(nodes[MainScene]) :
       \E d \in UsedIds(nodes[MainScene]) \cup {NoId, MissingId} :
         PlaceAfter(MainScene, s, d)
  \/ \E s \in UsedIds(nodes[MainScene]) :
       \E d \in UsedIds(nodes[MainScene]) : PlaceBefore(MainScene, s, d)
  \/ /\ nodes[MainScene] = <<>>
     /\ stack[MainScene] = <<>>
     /\ \E list \in SavedLists({}, MaxSnap, {Cam, Ghost}) : AddSources(MainScene, list)

Spec == Init /\ [][Next]_vars

(***************************************************************************)
(* SpecScenes: several scenes whose items show the camera or other scenes. *)
(***************************************************************************)
NextScenes ==
  \/ \E sc \in Scenes : \E src \in Sources \cup {Ghost} :
       TotalNodes < MaxTotal /\ AddSource(sc, src)
  \/ \E sc \in Scenes : \E id \in UsedIds(nodes[sc]) : RemoveItem(sc, id)
  \/ \E sc \in Scenes : \E src \in Sources \cup {Ghost} :
       /\ TotalNodes < MaxTotal
       /\ HasUniqueId(nodes[sc])
       /\ AddSources(sc, <<[id |-> UniqueId(nodes[sc]), kind |-> "item",
                            sourceId |-> src, childrenIds |-> <<>>]>>)

SpecScenes == Init /\ [][NextScenes]_vars

(***************************************************************************)
(* SpecRemove: one scene, restored by addSources while it is new, that     *)
(* gains nodes by addSource and createFolder and loses them by removeItem  *)
(* and removeFolder.                                                       *)
(***************************************************************************)
NextRemove ==
  \/ AddSource(MainScene, Cam)
  \/ CreateFolder(MainScene)
  \/ \E id \in UsedIds(nodes[MainScene]) : RemoveItem(MainScene, id)
  \/ \E id \in UsedIds(nodes[MainScene]) : RemoveFolder(MainScene, id)
  \/ /\ nodes[MainScene] = <<>>
     /\ stack[MainScene] = <<>>
     /\ \E list \in SavedLists({}, MaxSnap, {Cam}) : AddSources(MainScene, list)

SpecRemove == Init /\ [][NextRemove]_vars

(***************************************************************************)
(* SpecIds: one scene built by addSource, createFolder and addSources,     *)
(* whose callers may name the id of the node to create.                    *)
(***************************************************************************)
NextIds ==
  \/ \E id \in NodeIds \cup {NoId} : AddSourceWithId(MainScene, Cam, id)
  \/ \E id \in NodeIds \cup {NoId} : CreateFolderWithId(MainScene, id)
  \/ \E id \in NodeIds : \E kind \in {"item", "folder"} :
       AddSources(MainScene, <<[id |-> id, kind |-> kind,
                                sourceId |-> IF kind = "item" THEN Cam ELSE "",
                                childrenIds |-> <<>>]>>)

SpecIds == Init /\ [][NextIds]_vars

(***************************************************************************)
(* SpecPlace: a scene restored by addSources from a saved list of up to    *)
(* MaxPlace nodes, then rearranged by placeAfter and placeBefore; the      *)
(* backend may fail in any of the moveItem calls of a placeAfter.          *)
(***************************************************************************)
NextPlace ==
  \/ /\ nodes[MainScene] = <<>>
     /\ stack[MainScene] = <<>>
     /\ \E list \in SavedLists({}, MaxPlace, {Cam}) :
          AddSourcesIn(MaxPlace, MainScene, list)
  \/ \E s \in UsedIds(nodes[MainScene]) :
       \E d \in UsedIds(nodes[MainScene]) \cup {NoId} :
         PlaceAfterIn(MaxPlace, MainScene, s, d)
  \/ \E s \in UsedIds(nodes[MainScene]) :
       \E d \in UsedIds(nodes[MainScene]) : PlaceBeforeIn(MaxPlace, MainScene, s, d)
  \/ \E s \in UsedIds(nodes[MainScene]) :
       \E d \in UsedIds(nodes[MainScene]) \cup {NoId} :
         \E failAt \in 0..(MoveItemCalls(nodes[MainScene], stack[MainScene], s, d) - 1) :
           PlaceAfterFailing(MainScene, s, d, failAt)

SpecPlace == Init /\ [][NextPlace]_vars

(***************************************************************************)
(* Properties.                                                             *)
(***************************************************************************)
\* the backend entries of the scene's items, in node order
ItemEntries(ns) == [i \in 1..Len(GetItems(ns)) |-> GetItems(ns)[i].obsId]

\* C1 (invariant F2): in every state the six editing operations reach, the
\* items of the scene, taken in node order, are the entries of the backend's
\* stack, element for element
C1_ItemOrderIsStackOrder ==
  ItemEntries(nodes[MainScene]) = stack[MainScene]

\* n's parentId chain reaches folderId
RECURSIVE ReachesFolder(_, _, _, _)
ReachesFolder(ns, n, folderId, fuel) ==
  /\ fuel > 0
  /\ n.parentId # NoId
  /\ \/ n.parentId = folderId
     \/ /\ GetNode(ns, n.parentId) # Null
        /\ ReachesFolder(ns, GetNode(ns, n.parentId), folderId, fuel - 1)

\* the positions (0-based) of the descendants of folderId
DescendantPositions(ns, folderId) ==
  {i \in 0..(Len(ns) - 1) : ReachesFolder(ns, At(ns, i), folderId, Len(ns))}

\* F1 on a node list: the descendants of every folder occupy the node
\* positions right after the folder, without a gap
FolderContiguity(ns) ==
  \A p \in 0..(Len(ns) - 1) :
    LET f  == At(ns, p)
        ds == DescendantPositions(ns, f.id)
    IN  f.kind = "folder" => ds = (p + 1)..(p + Cardinality(ds))

\* C2 (invariant F1): a call of addSource, createFolder, removeItem,
\* removeFolder, placeAfter or placeBefore on a scene in which the descendants
\* of every folder are the contiguous run right after the folder leaves a scene
\* in which they are.  (The steps taken from a scene that holds nodes are the
\* steps of these six operations: addSources replays into the new scene only.)
C2_FolderContiguityKept ==
  [][(nodes[MainScene] # <<>> /\ FolderContiguity(nodes[MainScene]))
       => FolderContiguity(nodes'[MainScene])]_vars

\* scene a has an item that shows scene b
Shows(all, a, b) ==
  \E i \in 1..Len(all[a]) : all[a][i].kind = "item" /\ all[a][i].sourceId = b

\* the scenes reached from the scenes of S in at most k more steps of Shows
RECURSIVE ShownWithin(_, _, _)
ShownWithin(all, S, k) ==
  IF k = 0 THEN S
  ELSE ShownWithin(all, S \cup {b \in Scenes : \E a \in S : Shows(all, a, b)}, k - 1)

\* the scenes a contains, directly or through any depth of scene items
Contained(all, a) ==
  ShownWithin(all, {b \in Scenes : Shows(all, a, b)}, Cardinality(Scenes))

Acyclic(all) == \A s \in Scenes : s \notin Contained(all, s)

\* C3 (invariant U3): in every state reached by addSource, addSources and
\* removeItem over the scenes, no scene contains itself, directly or through
\* any depth of scene items
C3_AcyclicComposition == Acyclic(nodes)

\* C4: on an acyclic graph, canAddSource is false for every scene source X
\* that is the scene S itself or contains S, and true for every existing
\* source that is not a scene
C4_CanAddSourceRejectsCycles ==
  Acyclic(nodes) =>
    \A S \in Scenes : \A X \in Sources :
      /\ (X \in Scenes /\ (X = S \/ S \in Contained(nodes, X)))
           => CanAddSource(nodes, S, X) = "false"
      /\ X \notin Scenes => CanAddSource(nodes, S, X) = "true"

\* an acyclic graph in which a scene X contains the scene S only through
\* another scene, and canAddSource rejects X for S
C4_Witness ==
  /\ Acyclic(nodes)
  /\ \E S \in Scenes : \E X \in Scenes \ {S} :
       /\ S \in Contained(nodes, X)
       /\ ~Shows(nodes, X, S)
       /\ CanAddSource(nodes, S, X) = "false"
  /\ \E S \in Scenes : CanAddSource(nodes, S, Cam) = "true"

\* the id handed to placeAfter for the node before n: NoId when none
PrevNodeOf(ns, id) ==
  LET p == GetPrevNode(ns, GetNode(ns, id))
  IN  IF p = Null THEN NoId ELSE p.id

\* C5 (idempotence): for every node x of the scene, placeAfter(x,
\* prevNodeOf(x)) leaves the node order and the backend's stack as they were
C5_PlaceAfterPrevChangesNothing ==
  \A x \in UsedIds(nodes[MainScene]) :
    LET r == PlaceAfterResult(nodes[MainScene], stack[MainScene], x,
                              PrevNodeOf(nodes[MainScene], x))
    IN  /\ GetNodesIds(r.ns) = GetNodesIds(nodes[MainScene])
        /\ r.st = stack[MainScene]

\* the node list as a snapshot hands it to addSources
Snapshot(ns) ==
  [i \in 1..Len(ns) |->
     [id |-> ns[i].id, kind |-> ns[i].kind, sourceId |-> ns[i].sourceId,
      childrenIds |-> ns[i].childrenIds]]

\* the ids of the items in the order of their entries in the stack
ItemsInStackOrder(ns, st) ==
  LET HasEntry(e) == \E i \in 1..Len(ns) : ns[i].kind = "item" /\ ns[i].obsId = e
      ItemOf(e) == CHOOSE id \in UsedIds(ns) :
                     \E i \in 1..Len(ns) :
                       ns[i].kind = "item" /\ ns[i].obsId = e /\ ns[i].id = id
      es == SelectSeq(st, HasEntry)
  IN  [i \in 1..Len(es) |-> ItemOf(es[i])]

\* the parentId and childrenIds of every node, by id
Family(ns) ==
  {<<ns[i].id, ns[i].parentId, ns[i].childrenIds>> : i \in 1..Len(ns)}

\* C6 (round trip): for every reachable scene, addSources of its snapshot
\* into the emptied scene gives the same ids in the same node order, the same
\* parentId and childrenIds, and the items in the same order in the stack
C6_SnapshotRoundTrip ==
  LET ns == nodes[MainScene]
      r  == AddSourcesResult(<<>>, <<>>, Snapshot(ns))
  IN  /\ GetNodesIds(r.ns) = GetNodesIds(ns)
      /\ Family(r.ns) = Family(ns)
      /\ ItemsInStackOrder(r.ns, r.st) = ItemsInStackOrder(ns, stack[MainScene])

\* s followed by its descendants (parentId chain), in node order
BlockOf(ns, s) ==
  LET InBlock(id) == id = s \/ ReachesFolder(ns, GetNode(ns, id), s, Len(ns))
  IN  <<s>> \o SelectSeq(GetNodesIds(ns), LAMBDA id : id # s /\ InBlock(id))

\* ids without the ids of block b
Others(ids, b) == SelectSeq(ids, LAMBDA id : id \notin Range(b))

\* block b stands at the (0-based) positions from..from + Len(b) - 1 of ids
BlockAt(ids, b, from) ==
  /\ from >= 0
  /\ from + Len(b) <= Len(ids)
  /\ SubSeq(ids, from + 1, from + Len(b)) = b

\* C7: for every node s and every other node d that is no descendant of s,
\* after placeAfter(s, d) the block of s and its descendants stands right
\* after d in node order, and the other nodes keep their relative order
C7_PlaceAfterLandsAfterDest ==
  \A s \in UsedIds(nodes[MainScene]) : \A d \in UsedIds(nodes[MainScene]) :
    LET ns  == nodes[MainScene]
        b   == BlockOf(ns, s)
        r   == PlaceAfterResult(ns, stack[MainScene], s, d)
        new == GetNodesIds(r.ns)
    IN  d \notin Range(b) =>
          /\ BlockAt(new, b, IndexOf(new, d) + 1)
          /\ Others(new, b) = Others(GetNodesIds(ns), b)

\* C8: for every node s and every other node d that is no descendant of s,
\* after placeBefore(s, d) the block of s and its descendants ends right
\* before d in node order, or starts at node index 0 when d had no node
\* before it
C8_PlaceBeforeLandsBeforeDest ==
  \A s \in UsedIds(nodes[MainScene]) : \A d \in UsedIds(nodes[MainScene]) :
    LET ns  == nodes[MainScene]
        b   == BlockOf(ns, s)
        r   == PlaceBeforeResult(ns, stack[MainScene], s, d)
        new == GetNodesIds(r.ns)
    IN  d \notin Range(b) =>
          \/ BlockAt(new, b, IndexOf(new, d) - Len(b))
          \/ PrevNodeOf(ns, d) = NoId /\ BlockAt(new, b, 0)

\* the backend entries of the items of block b, in stack order
BlockEntries(ns, st, b) ==
  SelectSeq(st, LAMBDA e : \E i \in 1..Len(ns) :
                  ns[i].kind = "item" /\ ns[i].obsId = e /\ ns[i].id \in Range(b))

\* C9: for every node s, after placeAfter(s) without a destination s is at
\* node index 0 followed by its descendants, and the entries of the block's
\* items are the first of the stack, in the order they had
C9_PlaceAfterNoDestMovesToFront ==
  \A s \in UsedIds(nodes[MainScene]) :
    LET ns == nodes[MainScene]
        b  == BlockOf(ns, s)
        r  == PlaceAfterResult(ns, stack[MainScene], s, NoId)
        es == BlockEntries(ns, stack[MainScene], b)
    IN  /\ BlockAt(GetNodesIds(r.ns), b, 0)
        /\ Len(es) <= Len(r.st)
        /\ SubSeq(r.st, 1, Len(es)) = es

\* C10: placeAfter(s, d) with a d that names no node of the scene fails, and
\* leaves the node order and the backend's stack as they were
C10_UnknownDestFails ==
  \A s \in UsedIds(nodes[MainScene]) :
    LET r == PlaceAfterResult(nodes[MainScene], stack[MainScene], s, MissingId)
    IN  /\ r.res # "ok"
        /\ GetNodesIds(r.ns) = GetNodesIds(nodes[MainScene])
        /\ r.st = stack[MainScene]


\* C11: an addSource call that fails, because the source id does not resolve
\* (error) or because canAddSource is false (null), adds no node, makes no
\* backend entry and leaves the selection as it was
C11_FailedAddSourceHasNoEffect ==
  [][\A sc \in Scenes : \A src \in Sources \cup {Ghost} :
       (AddSourceOutcome(nodes, sc, src) \in {"Error", "null"} /\ AddSource(sc, src))
         => (nodes' = nodes /\ stack' = stack /\ selection' = selection)]_vars

\* a node is selected, and addSource can be called on a scene with an unknown
\* source (error) and with a scene that contains it (null)
C11_Witness ==
  \E sc \in Scenes :
    /\ selection # {}
    /\ TotalNodes < MaxTotal
    /\ AddSourceOutcome(nodes, sc, Ghost) = "Error"
    /\ \E src \in Scenes \ {sc} : AddSourceOutcome(nodes, sc, src) = "null"

\* the ids of a node list, in list order
ListIds(list) == [i \in 1..Len(list) |-> list[i].id]

\* the list has an item whose source does not resolve
HasMissingSource(list) ==
  \E i \in 1..Len(list) : list[i].kind = "item" /\ ~SourceExists(list[i].sourceId)

\* C12: addSources on a list with items whose source does not resolve makes no
\* node and no backend entry for them, completes without error and creates
\* every other node, the created nodes standing in the order of the list and
\* each created item holding the backend entry made for it
C12_AddSourcesSkipsMissingSources ==
  [][\A list \in SavedLists({}, MaxSnap, {Cam, Ghost}) :
       (/\ nodes[MainScene] = <<>>
        /\ stack[MainScene] = <<>>
        /\ HasMissingSource(list)
        /\ AddSources(MainScene, list))
         => LET kept  == KeptNodes(list)
                items == SelectSeq(kept, IsItemModel)
                added == ObsAddItems(<<>>, items)
            IN  /\ AddSourcesResult(<<>>, <<>>, list).res = "ok"
                /\ GetNodesIds(nodes'[MainScene]) = ListIds(kept)
                /\ Len(stack'[MainScene]) = Len(items)
                /\ Range(stack'[MainScene]) = Range(added.ids)
                /\ \A k \in 1..Len(items) :
                     \E i \in 1..Len(nodes'[MainScene]) :
                       /\ nodes'[MainScene][i].id = items[k].id
                       /\ nodes'[MainScene][i].obsId = added.ids[k]]_vars


\* the node list without the node of that id
WithoutNode(ns, id) == LET Keep(n) == n.id # id IN SelectSeq(ns, Keep)

C14_NodeIdsPairwiseDistinct ==
  \A i, j \in 1..Len(nodes[MainScene]) :
    i # j => nodes[MainScene][i].id # nodes[MainScene][j].id


\* C15: when a backend moveItem call fails during placeAfter, the call ends
\* before the node order is committed: the node order is as before the call,
\* and the items in node order are still the backend's stack (F2), also when
\* the failure comes after some of a folder's items have been moved
C15_FailedMoveKeepsOrders ==
  [][\A s \in UsedIds(nodes[MainScene]) :
       \A d \in UsedIds(nodes[MainScene]) \cup {NoId} :
         \A failAt \in 0..(MaxPlace - 1) :
           (/\ ItemEntries(nodes[MainScene]) = stack[MainScene]
            /\ PlaceAfterFailing(MainScene, s, d, failAt))
             => /\ nodes'[MainScene] = nodes[MainScene]
                /\ ItemEntries(nodes'[MainScene]) = stack'[MainScene]]_vars


\* C16: placeAfter(x, x), a node placed after itself, moves no backend entry
\* to another place and leaves the node order as it was
C16_PlaceAfterItselfChangesNothing ==
  \A x \in UsedIds(nodes[MainScene]) :
    LET r == PlaceAfterResult(nodes[MainScene], stack[MainScene], x, x)
    IN  /\ r.st = stack[MainScene]
        /\ GetNodesIds(r.ns) = GetNodesIds(nodes[MainScene])


\* a scene as a saved scene is: F1 and F2 hold, and every folder lists its
\* descendants in node order
WellPlaced(ns, st) ==
  /\ FolderContiguity(ns)
  /\ ItemEntries(ns) = st
  /\ \A i \in 1..Len(ns) :
       ns[i].kind = "folder" =>
         /\ NestedResolves(ns, ns[i])
         /\ GetNestedNodesIds(ns, ns[i]) = Tail(BlockOf(ns, ns[i].id))

\* es stands in st as one run, in this order
RunOf(st, es) ==
  \E k \in 0..(Len(st) - Len(es)) : SubSeq(st, k + 1, k + Len(es)) = es

\* C17: when placeAfter moves a folder that holds two or more items, forward
\* or backward, the moveItem calls leave the entries of the folder's items
\* next to each other in the stack and in the order they had
C17_MovedItemsKeepRunAndOrder ==
  LET ns == nodes[MainScene]
      st == stack[MainScene]
  IN  WellPlaced(ns, st) =>
        \A s \in UsedIds(ns) : \A d \in UsedIds(ns) \cup {NoId} :
          LET b  == BlockOf(ns, s)
              es == BlockEntries(ns, st, b)
              r  == PlaceAfterResult(ns, st, s, d)
          IN  (/\ GetNode(ns, s).kind = "folder"
               /\ Len(es) >= 2
               /\ d \notin Range(b)
               /\ r.res = "ok")
                => /\ BlockEntries(ns, r.st, b) = es
                   /\ RunOf(r.st, es)


\* C18: in every state reached by addSource, addSources and removeItem over
\* the scenes, every hasNestedScene and every canAddSource call ends and
\* returns a boolean, and the scenes it traverses form no cycle
C18_CycleCheckTerminates ==
  /\ \A S \in Scenes : \A X \in Sources \cup {Ghost} :
       CanAddSource(nodes, S, X) \in {"true", "false"}
  /\ \A S \in Scenes : \A X \in Scenes :
       HasNestedScene(nodes, S, X) \in {"true", "false"}
  /\ Acyclic(nodes)


\* new holds every node of old (a list of distinct nodes) once, and nothing else
IsPermutationOf(new, old) ==
  /\ Len(new) = Len(old)
  /\ \A i \in 1..Len(old) : \E j \in 1..Len(new) : new[j] = old[i]

\* C19: every placeAfter and placeBefore call on existing nodes that commits a
\* node order commits a permutation of the scene's nodes: no node is lost,
\* doubled or undefined, whatever the source and the destination are (a
\* destination inside the moved subtree and a folder whose descendants do not
\* stand together included)
C19_PlaceCommitsPermutation ==
  LET ns == nodes[MainScene]
      st == stack[MainScene]
  IN  (\A i, j \in 1..Len(ns) : i # j => ns[i].id # ns[j].id) =>
        \A s \in UsedIds(ns) :
          /\ \A d \in UsedIds(ns) \cup {NoId} :
               LET r == PlaceAfterResult(ns, st, s, d)
               IN  r.res = "ok" => IsPermutationOf(r.ns, ns)
          /\ \A d \in UsedIds(ns) :
               LET r == PlaceBeforeResult(ns, st, s, d)
               IN  r.res = "ok" => IsPermutationOf(r.ns, ns)


\* C20: placeAfter completes for every existing source node; for a folder
\* that has no item below it, it issues no backend move and still moves the
\* folder and its descendants right after the destination (to the front when
\* there is none)
C20_PlaceAfterCompletesForItemlessFolder ==
  LET ns == nodes[MainScene]
      st == stack[MainScene]
  IN  \A s \in UsedIds(ns) :
        LET b == BlockOf(ns, s)
        IN  \A d \in (UsedIds(ns) \ Range(b)) \cup {NoId} :
              LET r   == PlaceAfterResult(ns, st, s, d)
                  new == GetNodesIds(r.ns)
              IN  /\ r.res = "ok"
                  /\ ItemsToMove(ns, GetNode(ns, s)) = <<>> =>
                       /\ r.st = st
                       /\ BlockAt(new, b, IF d = NoId THEN 0 ELSE IndexOf(new, d) + 1)

====
